---- MODULE Spec2Model ----
(***************************************************************************)
(* Model of go-eth-state-node-iterator: the partition planner (MakePaths,  *)
(* eachInterval / eachPrefixRange), the bounded iterator                   *)
(* (PrefixBoundIterator) and the progress tracker (tracker.Tracker).       *)
(*                                                                         *)
(* A path is a sequence of nibbles.  A Go []byte that is nil is the value  *)
(* NIL; the empty non-nil slice is <<>>.                                    *)
(***************************************************************************)
EXTENDS Integers, Sequences, FiniteSets, TLC

VARIABLES
    \* ---- partition planner (MakePaths run step by step)
    prefix,     \* the prefix argument of MakePaths
    nbins,      \* the nbins argument of MakePaths
    gen,        \* the prefixGenerator: [current, step, stepIndex]
    res,        \* MakePaths' result slice so far
    pgState,    \* "gen" (in the loop) | "done" (returned) | "ranges" | "panic"
    ranges,     \* pairs handed to the callback by eachInterval
    rangesPad,  \* pairs handed to the callback by eachPrefixRange
    \* ---- bounded iterators over one trie, driven bin after bin
    trie,       \* the trie: its node paths in pre-order (ascending)
    iters,      \* the PrefixBoundIterators under test
    bin,        \* index (from 1) of the iterator being driven
    out,        \* per iterator, the paths seen after each Next that returned true
    lastOk,     \* result of the latest Next on iters[bin]: "none" | "true" | "false"
    itState,    \* "idle" | "cover" (SubtrieIterators) | "bounds" (one iterator) | "finished"
    \* ---- tracker.Tracker and the workers that drive tracked iterators
    buf,        \* the buf argument of tracker.New: capacity of both channels
    startChan,  \* Tracker.startChan: the buffered iterators, oldest first
    stopChan,   \* Tracker.stopChan
    startClosed, \* close(tr.startChan) has run
    stopClosed, \* close(tr.stopChan) has run
    started,    \* Tracker.started (the keys of the map)
    stopped,    \* Tracker.stopped
    running,    \* Tracker.running
    file,       \* the recovery file: "absent", or its rows in order
    haltPc,     \* where HaltAndDump is: "run" (not called) .. "done" (returned)
    pc,         \* per worker, where it is in Tracked / Next / StopIterator
    left,       \* per worker, nodes its wrapped iterator still has to visit
    falses,     \* per worker, how many times its Next has returned false
    stops,      \* per worker, how many times it has called StopIterator
    sentStart,  \* iterators whose registration was delivered to startChan
    sentStop,   \* iterators for which a stop notification was delivered
    logged,     \* iterators that logged "iterator stopped after tracker halted"
    fatal,      \* "none", or the call that panicked sending on a closed channel
    \* ---- the checkpoint cycle: track, HaltAndDump, exit, Restore in a new process
    tree,       \* the trie handed to Restore and to the iterator constructors
    recoveryFile, \* the file: whether it exists, and its rows (fields as hex text)
    trk,        \* the Tracker of the running process
    its,        \* the tracker.Iterators made by Tracked in this process, in order
    emitted,    \* per tracked iterator, the paths after each Next that returned true
    proc,       \* which process is running: 1, then 2 after the restart
    rst,        \* the Restore call: where it is, what it returned
    callerWrites, \* whether the workers store Path() into SeekedPath after a Next
    dumped,     \* per row of the last dump: the iterator it came from, as it was
    \* ---- calls of Next on a bounded iterator after one has returned false
    again,      \* how many, the latest result, and the iterator when false came
    \* ---- the path arithmetic of Restore, on one recorded path
    recorded,   \* the start path parsed from a checkpoint row
    dec,        \* decrementPath(recorded): the path afterwards and the result
    resume,     \* the start path Restore seeks from
    rwState     \* "idle" | "parsed" | "decremented" | "resumed"

plannerVars == <<prefix, nbins, gen, res, pgState, ranges, rangesPad>>

iterVars == <<trie, iters, bin, out, lastOk, itState, again>>

chanVars == <<startChan, stopChan, startClosed, stopClosed>>

trackerVars == <<buf, startChan, stopChan, startClosed, stopClosed, started, stopped,
                 running, file, haltPc, pc, left, falses, stops, sentStart, sentStop,
                 logged, fatal>>

restoreVars == <<tree, recoveryFile, trk, its, emitted, proc, rst, callerWrites, dumped>>

rewindVars == <<recorded, dec, resume, rwState>>

vars == <<prefix, nbins, gen, res, pgState, ranges, rangesPad,
          trie, iters, bin, out, lastOk, itState, again,
          buf, startChan, stopChan, startClosed, stopClosed, started, stopped,
          running, file, haltPc, pc, left, falses, stops, sentStart, sentStop,
          logged, fatal,
          tree, recoveryFile, trk, its, emitted, proc, rst, callerWrites, dumped,
          recorded, dec, resume, rwState>>

(***************************************************************************)
(* Bounds of the model.                                                    *)
(***************************************************************************)
MaxLogBins == 8        \* nbins ranges over the powers of two 2^0 .. 2^MaxLogBins
MaxPlainBins == 12     \* and over every count 0 .. MaxPlainBins (not only powers of two)
MaxTrieNodes == 3      \* a trie holds its root and at most MaxTrieNodes further nodes
MaxLogCover == 5       \* SubtrieIterators is called with nbins = 2^0 .. 2^MaxLogCover
MaxBuf == 2            \* tracker.New is called with buf = 1 .. MaxBuf; buf workers run
MaxLeft == 1           \* a tracked iterator has 0 .. MaxLeft nodes left to visit
MaxRuns == 2           \* processes in a row: the last one may not restart
MaxFalses == 2         \* a worker calls Next until it has returned false MaxFalses times
MaxAgain == 2          \* Next is called up to MaxAgain times after it returned false
MaxPathLen == 3        \* a recorded path holds 0 .. MaxPathLen nibbles

(***************************************************************************)
(* Byte slices.                                                            *)
(***************************************************************************)
NIL == <<-1>>

Bytes(p) == IF p = NIL THEN <<>> ELSE p

RECURSIVE CompareFrom(_, _, _)
CompareFrom(x, y, i) ==
    IF i > Len(x) /\ i > Len(y) THEN 0
    ELSE IF i > Len(x) THEN -1
    ELSE IF i > Len(y) THEN 1
    ELSE IF x[i] < y[i] THEN -1
    ELSE IF x[i] > y[i] THEN 1
    ELSE CompareFrom(x, y, i + 1)

\* bytes.Compare: lexicographic, a nil slice compares as the empty slice
Compare(a, b) == CompareFrom(Bytes(a), Bytes(b), 1)

\* make([]byte, n)
RECURSIVE Zeros(_)
Zeros(n) == IF n = 0 THEN <<>> ELSE Append(Zeros(n - 1), 0)

(***************************************************************************)
(* prefixGenerator                                                         *)
(***************************************************************************)
\* mutant: every nbins other than 0 is taken for a power of two
OnesCountNonZero(n) == IF n = 0 THEN 0 ELSE 1

RECURSIVE OnesCount(_)
OnesCount(n) == IF n = 0 THEN 0 ELSE (n % 2) + OnesCount(n \div 2)

\* the loop of newPrefixGenerator: for ; nbins != 0; stepIndex++
RECURSIVE newPrefixGeneratorLoop(_, _, _)
newPrefixGeneratorLoop(n, step, stepIndex) ==
    IF n = 0
    THEN [current |-> Zeros(stepIndex), step |-> step, stepIndex |-> stepIndex - 1]
    ELSE LET divisor == (n % 16) % 256
         IN newPrefixGeneratorLoop(n \div 16,
                                   IF divisor # 0 THEN 16 \div divisor ELSE step,
                                   stepIndex + 1)

\* defined for OnesCount(n) = 1; any other n panics before the loop
newPrefixGenerator(n) == newPrefixGeneratorLoop(n, 0, 0)

\* mutant: the loop condition stops one boundary early
HasNextShort(g) == g.current[1] < 15

HasNext(g) == g.current[1] < 16

\* mutant: an overflowed nibble is carried but not reset to 0
RECURSIVE GenNextLoopKeeps(_, _, _)
GenNextLoopKeeps(cur, ix, overflow) ==
    IF ix >= Len(cur) THEN cur
    ELSE LET rix == Len(cur) - 1 - ix
             c1  == IF overflow THEN [cur EXCEPT ![rix + 1] = (cur[rix + 1] + 1) % 256]
                    ELSE cur
         IN GenNextLoopKeeps(c1, ix + 1, rix # 0 /\ c1[rix + 1] > 15)

\* the overflow loop of prefixGenerator.Next; ix counts up, rix is the Go index
RECURSIVE GenNextLoop(_, _, _)
GenNextLoop(cur, ix, overflow) ==
    IF ix >= Len(cur) THEN cur
    ELSE LET rix == Len(cur) - 1 - ix
             c1  == IF overflow THEN [cur EXCEPT ![rix + 1] = (cur[rix + 1] + 1) % 256]
                    ELSE cur
             ovf == rix # 0 /\ c1[rix + 1] > 15
             c2  == IF ovf THEN [c1 EXCEPT ![rix + 1] = 0] ELSE c1
         IN GenNextLoop(c2, ix + 1, ovf)

GenNext(g) ==
    LET stepped == [g.current EXCEPT
                       ![g.stepIndex + 1] = (g.current[g.stepIndex + 1] + g.step) % 256]
    IN [current |-> GenNextLoop(stepped, 0, FALSE), step |-> g.step,
        stepIndex |-> g.stepIndex]

\* one element of MakePaths' result: a fresh copy of prefix with Value() appended
PathOf(pre, g) == Bytes(pre) \o g.current

RECURSIVE MakePathsLoop(_, _, _)
MakePathsLoop(pre, g, acc) ==
    IF Len(acc) >= 0 /\ ~HasNext(g) THEN acc
    ELSE MakePathsLoop(pre, GenNext(g), Append(acc, PathOf(pre, g)))

MakePaths(pre, n) == MakePathsLoop(pre, newPrefixGenerator(n), <<>>)

(***************************************************************************)
(* Interval builders                                                       *)
(***************************************************************************)
RECURSIVE truncateZeros(_)
truncateZeros(path) ==
    IF path = NIL \/ Len(path) = 0 THEN path
    ELSE IF path[Len(path)] = 0 THEN truncateZeros(SubSeq(path, 1, Len(path) - 1))
    ELSE path

\* paths = append(MakePaths(..), nil); paths[0] = nil
WithTail(paths) == [i \in 1..(Len(paths) + 1) |->
                        IF i = 1 \/ i = Len(paths) + 1 THEN NIL ELSE paths[i]]

\* mutant: only the upper bound of each pair is truncated
IntervalPairsRawStart(made) ==
    LET paths == WithTail(made)
    IN [i \in 1..(Len(paths) - 1) |-> <<paths[i], truncateZeros(paths[i + 1])>>]

\* eachInterval after its MakePaths call: the (from, to) pairs handed to cb
IntervalPairs(made) ==
    LET paths == WithTail(made)
    IN [i \in 1..(Len(paths) - 1) |->
            <<truncateZeros(paths[i]), truncateZeros(paths[i + 1])>>]

\* src/iterator.go eachInterval
eachInterval(pre, n) == IntervalPairs(MakePaths(pre, n))

\* zero-pad for odd-length keys
PadKey(key) == IF Len(Bytes(key)) % 2 # 0 THEN Bytes(key) \o <<0>> ELSE key

\* eachPrefixRange after its MakePaths call: the (key, prefixes[i+1]) pairs
\* handed to callback
PrefixRangePairs(made) ==
    LET prefixes == WithTail(made)
    IN [i \in 1..(Len(prefixes) - 1) |-> <<PadKey(prefixes[i]), prefixes[i + 1]>>]

\* the zero-padding variant of the interval builder
eachPrefixRange(pre, n) == PrefixRangePairs(MakePaths(pre, n))

(***************************************************************************)
(* The planner as a state machine: MakePaths one loop iteration at a time, *)
(* then the two interval builders on its arguments.                        *)
(***************************************************************************)
Pow2(k) == 2 ^ k

PrefixInputs == {NIL, <<>>, <<4>>, <<4, 0>>}

NbinsInputs == {Pow2(k) : k \in 0..MaxLogBins} \cup (0..MaxPlainBins)

NoGen == [current |-> <<>>, step |-> 0, stepIndex |-> 0]

\* no call of Next has been made after a false one
NoAgain == [calls |-> 0, ok |-> "none", byBound |-> FALSE, u |-> [at |-> "end", idx |-> 0]]

IterIdle ==
    /\ trie = <<>> /\ iters = <<>> /\ bin = 0 /\ out = <<>>
    /\ lastOk = "none" /\ itState = "idle" /\ again = NoAgain

NoDec == [path |-> <<>>, ok |-> FALSE]

RewindIdle == recorded = NIL /\ dec = NoDec /\ resume = NIL /\ rwState = "idle"

TrackerIdle ==
    /\ buf = 0 /\ startChan = <<>> /\ stopChan = <<>>
    /\ startClosed = FALSE /\ stopClosed = FALSE
    /\ started = {} /\ stopped = <<>> /\ running = FALSE
    /\ file = "absent" /\ haltPc = "idle"
    /\ pc = <<>> /\ left = <<>> /\ falses = <<>> /\ stops = <<>>
    /\ sentStart = {} /\ sentStop = {} /\ logged = {} /\ fatal = "none"

NoTracker == [cap |-> 0, startChan |-> <<>>, stopChan |-> <<>>, closed |-> FALSE,
              started |-> {}, stopped |-> <<>>, running |-> FALSE, halt |-> "idle",
              fatal |-> "none"]

\* no recovery file / a recovery file with these rows
NoFile == [exists |-> FALSE, rows |-> <<>>]

FileOf(rows) == [exists |-> TRUE, rows |-> rows]

NoRestore == [pc |-> "none", ix |-> 0, rows |-> <<>>, ret |-> <<>>, pending |-> <<>>,
              afterHalt |-> FALSE]

RestoreIdle ==
    /\ tree = <<>> /\ recoveryFile = NoFile /\ trk = NoTracker /\ its = <<>>
    /\ emitted = <<>> /\ proc = 0 /\ rst = NoRestore /\ callerWrites = FALSE
    /\ dumped = <<>>

PlannerIdle ==
    /\ prefix = NIL /\ nbins = 0 /\ gen = NoGen /\ res = <<>>
    /\ pgState = "idle" /\ ranges = <<>> /\ rangesPad = <<>>

\* MakePaths is entered: newPrefixGenerator panics, or the loop starts
PlannerInit ==
    /\ prefix \in PrefixInputs
    /\ nbins \in NbinsInputs
    /\ res = <<>>
    /\ ranges = <<>>
    /\ rangesPad = <<>>
    /\ IF OnesCount(nbins) # 1
       THEN gen = NoGen /\ pgState = "panic"
       ELSE gen = newPrefixGenerator(nbins) /\ pgState = "gen"
    /\ IterIdle
    /\ TrackerIdle
    /\ RestoreIdle
    /\ RewindIdle

\* one iteration of MakePaths' for loop
MakePathsStep ==
    /\ pgState = "gen"
    /\ HasNext(gen)
    /\ res' = Append(res, PathOf(prefix, gen))
    /\ gen' = GenNext(gen)
    /\ UNCHANGED <<prefix, nbins, pgState, ranges, rangesPad>>
    /\ UNCHANGED iterVars
    /\ UNCHANGED rewindVars
    /\ UNCHANGED trackerVars
    /\ UNCHANGED restoreVars

\* the loop condition fails and MakePaths returns res
MakePathsReturn ==
    /\ pgState = "gen"
    /\ ~HasNext(gen)
    /\ pgState' = "done"
    /\ UNCHANGED <<prefix, nbins, gen, res, ranges, rangesPad>>
    /\ UNCHANGED iterVars
    /\ UNCHANGED rewindVars
    /\ UNCHANGED trackerVars
    /\ UNCHANGED restoreVars

\* the rest of eachInterval and of eachPrefixRange, on MakePaths' result
BuildRanges ==
    /\ pgState = "done"
    /\ ranges' = IntervalPairs(res)
    /\ rangesPad' = PrefixRangePairs(res)
    /\ pgState' = "ranges"
    /\ UNCHANGED <<prefix, nbins, gen, res>>
    /\ UNCHANGED iterVars
    /\ UNCHANGED rewindVars
    /\ UNCHANGED trackerVars
    /\ UNCHANGED restoreVars

PlannerNext == MakePathsStep \/ MakePathsReturn \/ BuildRanges

SpecPlanner == PlannerInit /\ [][PlannerNext]_vars

(***************************************************************************)
(* Claims about the planner                                                *)
(***************************************************************************)
\* a list of (start, end) pairs: n of them, open at both ends
OpenEnded(rs, n) ==
    /\ Len(rs) = n
    /\ rs[1][1] = NIL
    /\ rs[Len(rs)][2] = NIL

\* every range ends where the next one starts
Contiguous(rs) == \A i \in 1..(Len(rs) - 1) : rs[i][2] = rs[i + 1][1]

\* every range starts at the previous end, zero-padded to even length
ContiguousPadded(rs) == \A i \in 1..(Len(rs) - 1) : rs[i + 1][1] = PadKey(rs[i][2])

C3_MakePathsCount == pgState \in {"done", "ranges"} => Len(res) = nbins

\* C3 witness: MakePaths([4], 16) has returned; the low nibble of 16 is zero
C3_Witness == pgState = "done" /\ nbins = 16 /\ prefix = <<4>> /\ Len(res) = 16

(***************************************************************************)
(* The trie and go-ethereum's trie.NodeIterator over it.  The trie is the  *)
(* ascending sequence of its node paths; pre-order is ascending path       *)
(* order.  An iterator state is [at, idx]:                                  *)
(*   at = "fresh": not advanced yet, the first Next(true) moves onto node  *)
(*                 idx (the first node at or after the seek key);          *)
(*   at = "node" : positioned on node idx;                                  *)
(*   at = "end"  : exhausted (errIteratorEnd), for good.                    *)
(***************************************************************************)
IsPrefix(a, b) == Len(a) <= Len(b) /\ SubSeq(b, 1, Len(a)) = a

RECURSIVE SortPaths(_)
SortPaths(S) ==
    IF S = {} THEN <<>>
    ELSE LET m == CHOOSE x \in S : \A y \in S : Compare(x, y) <= 0
         IN <<m>> \o SortPaths(S \ {m})

NodeUniverse == {<<0>>, <<0, 8>>, <<1>>, <<1, 0>>, <<7, 15>>, <<8>>, <<8, 0>>, <<15, 15>>}

\* a root with at most MaxTrieNodes nodes below it (the empty trie is left
\* out: what its iterator does differs between go-ethereum versions)
TrieInputs ==
    {SortPaths({<<>>} \cup S) :
        S \in {T \in SUBSET NodeUniverse : Cardinality(T) <= MaxTrieNodes}}

UEnd == [at |-> "end", idx |-> 0]

\* index of the first node whose path is >= key, Len(t) + 1 when there is none
RECURSIVE FirstAtOrAfter(_, _, _)
FirstAtOrAfter(t, key, i) ==
    IF i > Len(t) THEN i
    ELSE IF Compare(t[i], key) >= 0 THEN i
    ELSE FirstAtOrAfter(t, key, i + 1)

\* index of the nearest ancestor of node i (0 for the root)
RECURSIVE ParentIdx(_, _, _)
ParentIdx(t, i, j) ==
    IF j = 0 THEN 0
    ELSE IF IsPrefix(t[j], t[i]) THEN j
    ELSE ParentIdx(t, i, j - 1)

\* index of the first node after the subtree of node i, Len(t) + 1 when none
RECURSIVE AfterSubtree(_, _, _)
AfterSubtree(t, i, j) ==
    IF j > Len(t) THEN j
    ELSE IF IsPrefix(t[i], t[j]) THEN AfterSubtree(t, i, j + 1)
    ELSE j

\* HexToKeyBytes: packs an even number of nibbles into key bytes
HexToKeyBytes(hex) ==
    LET h == Bytes(hex)
    IN [i \in 1..(Len(h) \div 2) |-> 16 * h[2 * i - 1] + h[2 * i]]

\* the seek key of the trie iterator: the nibbles of the start key
KeybytesToHex(key) ==
    [i \in 1..(2 * Len(key)) |->
        IF i % 2 = 1 THEN key[(i + 1) \div 2] \div 16 ELSE key[i \div 2] % 16]

\* tree.NodeIterator(start): seeks to the first node at or after the key
NodeIterator(t, start) ==
    LET i == FirstAtOrAfter(t, KeybytesToHex(start), 1)
    IN IF i > Len(t) THEN UEnd ELSE [at |-> "fresh", idx |-> i]

\* NodeIterator.Path(): the node's path; before the first Next the path of the
\* node the seek stopped under; empty once exhausted
UPath(t, u) ==
    IF u.at = "node" THEN t[u.idx]
    ELSE IF u.at = "fresh" /\ ParentIdx(t, u.idx, u.idx - 1) > 0
         THEN t[ParentIdx(t, u.idx, u.idx - 1)]
    ELSE <<>>

UAt(t, i) == IF i > Len(t) THEN UEnd ELSE [at |-> "node", idx |-> i]

\* NodeIterator.Next(descend): [u |-> the new state, ok |-> the result]
UNext(t, u, descend) ==
    LET to == IF u.at = "end" THEN UEnd
              ELSE IF u.at = "fresh"
                   THEN IF descend \/ ParentIdx(t, u.idx, u.idx - 1) = 0
                        THEN UAt(t, u.idx)
                        ELSE UAt(t, AfterSubtree(t, ParentIdx(t, u.idx, u.idx - 1), u.idx))
              ELSE IF descend THEN UAt(t, u.idx + 1)
              ELSE UAt(t, AfterSubtree(t, u.idx, u.idx + 1))
    IN [u |-> to, ok |-> to.at = "node"]

(***************************************************************************)
(* PrefixBoundIterator.  A bounded iterator is                             *)
(*   [kind, u, primed, EndPath, from]                                       *)
(* kind "primed" is src/iterator.go (linear seek in the constructor, first *)
(* Next a no-op); kind "seek" is the variant built on a seeked trie        *)
(* iterator (upper bound inclusive).  from is the lower bound it was built *)
(* with, kept for the claims only.                                          *)
(***************************************************************************)
\* the constructor's loop: for it.Next(true) { if from <= it.Path() { break } }
RECURSIVE SeekLoop(_, _, _)
SeekLoop(t, u, from) ==
    LET r == UNext(t, u, TRUE)
    IN IF ~r.ok THEN r.u
       ELSE IF Compare(from, UPath(t, r.u)) <= 0 THEN r.u
       ELSE SeekLoop(t, r.u, from)

\* src/iterator.go NewPrefixBoundIterator(tree, from, to)
NewPrefixBoundIterator(t, from, to) ==
    [kind |-> "primed", u |-> SeekLoop(t, NodeIterator(t, <<>>), from),
     primed |-> FALSE, EndPath |-> to, from |-> from]

\* the seek variant: NewPrefixBoundIterator(makeIterator(HexToKeyBytes(from)), to)
NewSeekBoundIterator(t, from, to) ==
    [kind |-> "seek", u |-> NodeIterator(t, HexToKeyBytes(from)),
     primed |-> FALSE, EndPath |-> to, from |-> from]

Path(t, it) == UPath(t, it.u)

\* mutant: once primed, the upper bound is no longer looked at
PrimedNextNoBound(t, it, descend) ==
    IF ~it.primed
    THEN [it |-> [it EXCEPT !.primed = TRUE],
          ok |-> (it.EndPath = NIL) \/ Compare(UPath(t, it.u), it.EndPath) < 0]
    ELSE LET r == UNext(t, it.u, descend)
         IN [it |-> [it EXCEPT !.u = r.u], ok |-> r.ok]

\* src/iterator.go PrefixBoundIterator.Next
PrimedNext(t, it, descend) ==
    IF ~it.primed
    THEN [it |-> [it EXCEPT !.primed = TRUE],
          ok |-> (it.EndPath = NIL) \/ Compare(UPath(t, it.u), it.EndPath) < 0]
    ELSE LET r == UNext(t, it.u, descend)
         IN IF ~r.ok
            THEN [it |-> [it EXCEPT !.u = r.u], ok |-> FALSE]
            ELSE [it |-> [it EXCEPT !.u = r.u],
                  ok |-> (it.EndPath = NIL) \/ Compare(UPath(t, r.u), it.EndPath) < 0]

\* the seek variant's PrefixBoundIterator.Next
SeekNext(t, it, descend) ==
    LET r == UNext(t, it.u, descend)
    IN IF it.EndPath = NIL THEN [it |-> [it EXCEPT !.u = r.u], ok |-> r.ok]
       ELSE IF ~r.ok THEN [it |-> [it EXCEPT !.u = r.u], ok |-> FALSE]
       ELSE [it |-> [it EXCEPT !.u = r.u], ok |-> Compare(UPath(t, r.u), it.EndPath) <= 0]

BoundNext(t, it, descend) ==
    IF it.kind = "primed" THEN PrimedNext(t, it, descend) ELSE SeekNext(t, it, descend)

\* src/iterator.go SubtrieIterators(tree, nbins)
SubtrieIterators(t, n) ==
    LET rs == eachInterval(NIL, n)
    IN [i \in 1..Len(rs) |-> NewPrefixBoundIterator(t, rs[i][1], rs[i][2])]

\* the seek variant's SubtrieIterators(makeIterator, nbins)
SeekSubtrieIterators(t, n) ==
    LET rs == eachPrefixRange(NIL, n)
    IN [i \in 1..Len(rs) |-> NewSeekBoundIterator(t, rs[i][1], rs[i][2])]

(***************************************************************************)
(* Driving the iterators: each one in turn with `for it.Next(..) { }`, as  *)
(* the repository's tests do.                                               *)
(***************************************************************************)
Kinds == {"primed", "seek"}

\* lower and upper bounds tried on a single iterator
LowerInputs == {NIL, <<1, 0>>, <<3, 5>>, <<8>>, <<8, 0>>, <<15, 0>>}

UpperInputs == {NIL, <<>>, <<0, 0>>, <<2, 0>>, <<4, 2, 0>>, <<7, 0>>, <<8, 0>>}

IterInit ==
    /\ trie \in TrieInputs
    /\ iters = <<>> /\ bin = 0 /\ out = <<>>
    /\ lastOk = "none" /\ itState = "idle" /\ again = NoAgain
    /\ PlannerIdle
    /\ TrackerIdle
    /\ RestoreIdle
    /\ RewindIdle

\* iters := SubtrieIterators(tree, nbins), either variant
CallSubtrieIterators ==
    /\ itState = "idle"
    /\ \E kind \in Kinds, k \in 0..MaxLogCover :
          /\ iters' = IF kind = "primed" THEN SubtrieIterators(trie, Pow2(k))
                      ELSE SeekSubtrieIterators(trie, Pow2(k))
          /\ out' = [i \in 1..Pow2(k) |-> <<>>]
    /\ bin' = 1
    /\ lastOk' = "none"
    /\ itState' = "cover"
    /\ UNCHANGED <<trie, again>>
    /\ UNCHANGED plannerVars
    /\ UNCHANGED rewindVars
    /\ UNCHANGED restoreVars
    /\ UNCHANGED trackerVars

\* it := NewPrefixBoundIterator(.., lower, upper), either variant
CallNewPrefixBoundIterator ==
    /\ itState = "idle"
    /\ \E kind \in Kinds, lower \in LowerInputs, upper \in UpperInputs :
          \* HexToKeyBytes takes an even number of nibbles only
          /\ kind = "seek" => Len(Bytes(lower)) % 2 = 0
          /\ iters' = IF kind = "primed" THEN <<NewPrefixBoundIterator(trie, lower, upper)>>
                   ELSE <<NewSeekBoundIterator(trie, lower, upper)>>
    /\ out' = << <<>> >>
    /\ bin' = 1
    /\ lastOk' = "none"
    /\ itState' = "bounds"
    /\ UNCHANGED <<trie, again>>
    /\ UNCHANGED plannerVars
    /\ UNCHANGED rewindVars
    /\ UNCHANGED restoreVars
    /\ UNCHANGED trackerVars

\* one call iters[bin].Next(descend) of the loop `for it.Next(descend)`
DoNext(descend) ==
    /\ lastOk # "false"
    /\ LET r == BoundNext(trie, iters[bin], descend)
       IN /\ iters' = [iters EXCEPT ![bin] = r.it]
          /\ lastOk' = IF r.ok THEN "true" ELSE "false"
          /\ out' = IF r.ok THEN [out EXCEPT ![bin] = Append(@, Path(trie, r.it))] ELSE out
          /\ again' = IF r.ok THEN again
                       ELSE [calls |-> 0, ok |-> "none", byBound |-> r.it.u.at = "node",
                             u |-> r.it.u]
    /\ UNCHANGED <<trie, bin, itState>>
    /\ UNCHANGED plannerVars
    /\ UNCHANGED rewindVars
    /\ UNCHANGED restoreVars
    /\ UNCHANGED trackerVars

\* the coverage run descends into every node
CoverNext ==
    /\ itState = "cover"
    /\ DoNext(TRUE)

\* a single bounded iterator is driven with either value of descend
BoundsNext ==
    /\ itState = "bounds"
    /\ \E descend \in BOOLEAN : DoNext(descend)

\* the caller goes on calling it.Next(descend) after it has returned false
NextAgain ==
    /\ itState = "bounds"
    /\ lastOk = "false"
    /\ again.calls < MaxAgain
    /\ \E descend \in BOOLEAN :
          LET r == BoundNext(trie, iters[bin], descend)
          IN /\ iters' = [iters EXCEPT ![bin] = r.it]
             /\ again' = [again EXCEPT !.calls = @ + 1,
                                       !.ok = IF r.ok THEN "true" ELSE "false"]
    /\ UNCHANGED <<trie, bin, out, lastOk, itState>>
    /\ UNCHANGED plannerVars
    /\ UNCHANGED rewindVars
    /\ UNCHANGED restoreVars
    /\ UNCHANGED trackerVars

\* the loop over iters[bin] ended: on to the next bin
NextBin ==
    /\ itState \in {"cover", "bounds"}
    /\ lastOk = "false"
    /\ bin < Len(iters)
    /\ bin' = bin + 1
    /\ lastOk' = "none"
    /\ UNCHANGED <<trie, iters, out, itState, again>>
    /\ UNCHANGED plannerVars
    /\ UNCHANGED rewindVars
    /\ UNCHANGED restoreVars
    /\ UNCHANGED trackerVars

\* the loop over the last iterator ended
Finish ==
    /\ itState \in {"cover", "bounds"}
    /\ lastOk = "false"
    /\ bin = Len(iters)
    /\ itState' = "finished"
    /\ UNCHANGED <<trie, iters, bin, out, lastOk, again>>
    /\ UNCHANGED plannerVars
    /\ UNCHANGED rewindVars
    /\ UNCHANGED restoreVars
    /\ UNCHANGED trackerVars

CoverSpecNext == CallSubtrieIterators \/ CoverNext \/ NextBin \/ Finish

SpecCover == IterInit /\ [][CoverSpecNext]_vars

BoundsSpecNext == CallNewPrefixBoundIterator \/ BoundsNext \/ NextAgain \/ Finish

SpecBounds == IterInit /\ [][BoundsSpecNext]_vars

(***************************************************************************)
(* Claims about the bounded iterators                                      *)
(***************************************************************************)
Last(q) == q[Len(q)]

\* the bins' outputs joined in bin order, a bin's first node dropped when it
\* repeats the node the join ends with
RECURSIVE JoinBins(_, _, _)
JoinBins(o, b, acc) ==
    IF b > Len(o) THEN acc
    ELSE IF Len(acc) > 0 /\ Len(o[b]) > 0 /\ o[b][1] = Last(acc)
         THEN JoinBins(o, b + 1, acc \o SubSeq(o[b], 2, Len(o[b])))
    ELSE JoinBins(o, b + 1, acc \o o[b])

\* the iterator's underlying trie iterator has no current node
Exhausted(it) == it.u.at = "end"

\* some iterator's constructor ran off the end of the trie
SomeStartsExhausted == \E i \in 1..Len(iters) : ~iters[i].primed /\ Exhausted(iters[i])

SeqToSet(q) == {q[i] : i \in 1..Len(q)}

\* C1: when the n iterators of SubtrieIterators have been run to exhaustion in
\* bin order, their outputs joined (a node repeated as the first node of the
\* next bin dropped) are exactly the trie's pre-order path sequence.
C1_CoversTrie == itState = "finished" => JoinBins(out, 1, <<>>) = trie

\* C1 for the seek variant alone (it holds there)
C1_CoversTrieSeek ==
    (itState = "finished" /\ iters[1].kind = "seek") => JoinBins(out, 1, <<>>) = trie

\* C4: a node is emitted by at most two iterators, those two adjacent, and two
\* adjacent iterators have at most one node in common.
C4_Overlap ==
    itState = "finished" =>
        /\ \A i, j \in 1..Len(out) :
              (j > i + 1) => SeqToSet(out[i]) \cap SeqToSet(out[j]) = {}
        /\ \A i \in 1..(Len(out) - 1) :
              Cardinality(SeqToSet(out[i]) \cap SeqToSet(out[i + 1])) <= 1

\* C4 for the seek variant alone (it holds there)
C4_OverlapSeek == (itState = "finished" /\ iters[1].kind = "seek") => C4_Overlap

\* C5: after a Next that returned true the iterator is on a path p with
\* lower <= p <= upper (upper not nil).
C5_InBounds ==
    (itState = "bounds" /\ lastOk = "true" /\ iters[1].EndPath # NIL) =>
        /\ Compare(Path(trie, iters[1]), iters[1].from) >= 0
        /\ Compare(iters[1].EndPath, Path(trie, iters[1])) >= 0

\* C5 for the seek variant alone (it holds there)
C5_InBoundsSeek == iters # <<>> /\ iters[1].kind = "seek" => C5_InBounds

\* C6: an iterator whose lower bound is greater than its upper bound yields no
\* node: its first Next returns false.
C6_InvertedEmpty ==
    (itState = "bounds" /\ iters[1].EndPath # NIL
        /\ Compare(iters[1].from, iters[1].EndPath) > 0) => out[1] = <<>>

\* C6 for the seek variant alone (it holds there)
C6_InvertedEmptySeek == iters # <<>> /\ iters[1].kind = "seek" => C6_InvertedEmpty

\* C7: Next never returns true while the underlying iterator has no current node.
C7_ExhaustedStaysExhausted ==
    (itState \in {"cover", "bounds"} /\ lastOk = "true") => ~Exhausted(iters[bin])

\* C7 for the seek variant alone (it holds there)
C7_ExhaustedSeek == iters # <<>> /\ iters[1].kind = "seek" => C7_ExhaustedStaysExhausted

(***************************************************************************)
(* tracker.Tracker.  Worker w owns tracked iterator w: it registers it     *)
(* (Tracked), advances it (Iterator.Next) and may stop it (StopIterator).  *)
(* The wrapped iterator is seen through its Next results only: it returns  *)
(* true left[w] more times, then false.  A send on a buffered channel is a *)
(* step of its own: it waits while the channel is full and panics once the *)
(* channel is closed.  Nothing receives from the channels before           *)
(* HaltAndDump.  HaltAndDump runs on its own goroutine, statement by       *)
(* statement.                                                               *)
(***************************************************************************)
Workers == 1..buf

RECURSIVE Perms(_)
Perms(S) ==
    IF S = {} THEN {<<>>}
    ELSE UNION {{<<x>> \o q : q \in Perms(S \ {x})} : x \in S}

\* one row of the recovery file, for tracked iterator w
Row(w) == [it |-> w]

Rows(f) == IF f = "absent" THEN {} ELSE {f[i] : i \in 1..Len(f)}

\* tracker.New(file, buf), with buf workers about to start
TrackerInit ==
    /\ buf \in 1..MaxBuf
    /\ startChan = <<>> /\ stopChan = <<>>
    /\ startClosed = FALSE /\ stopClosed = FALSE
    /\ started = {} /\ stopped = <<>>
    /\ running = TRUE
    /\ file \in {"absent", <<Row(0)>>}
    /\ haltPc = "run"
    /\ pc = [w \in Workers |-> "new"]
    /\ left \in [Workers -> 0..MaxLeft]
    /\ falses = [w \in Workers |-> 0]
    /\ stops = [w \in Workers |-> 0]
    /\ sentStart = {} /\ sentStop = {} /\ logged = {} /\ fatal = "none"
    /\ PlannerIdle
    /\ IterIdle
    /\ RestoreIdle
    /\ RewindIdle

\* Tracked up to its send: the Iterator is built
TrackedEnter(w) ==
    /\ fatal = "none"
    /\ pc[w] = "new"
    /\ pc' = [pc EXCEPT ![w] = "track_send"]
    /\ UNCHANGED <<buf, startChan, stopChan, startClosed, stopClosed, started, stopped,
                   running, file, haltPc, left, falses, stops, sentStart, sentStop,
                   logged, fatal>>
    /\ UNCHANGED plannerVars
    /\ UNCHANGED rewindVars
    /\ UNCHANGED restoreVars
    /\ UNCHANGED iterVars

\* tr.startChan <- ret
TrackedSend(w) ==
    /\ fatal = "none"
    /\ pc[w] = "track_send"
    /\ IF startClosed
       THEN /\ fatal' = "Tracked"
            /\ UNCHANGED <<startChan, pc, sentStart>>
       ELSE /\ Len(startChan) < buf
            /\ startChan' = Append(startChan, w)
            /\ pc' = [pc EXCEPT ![w] = "live"]
            /\ sentStart' = sentStart \cup {w}
            /\ UNCHANGED fatal
    /\ UNCHANGED <<buf, stopChan, startClosed, stopClosed, started, stopped, running,
                   file, haltPc, left, falses, stops, sentStop, logged>>
    /\ UNCHANGED plannerVars
    /\ UNCHANGED rewindVars
    /\ UNCHANGED restoreVars
    /\ UNCHANGED iterVars

\* StopIterator is entered
StopEnter(w) ==
    /\ fatal = "none"
    /\ pc[w] = "live"
    /\ stops[w] = 0
    /\ stops' = [stops EXCEPT ![w] = 1]
    /\ pc' = [pc EXCEPT ![w] = "stop_send"]
    /\ UNCHANGED <<buf, startChan, stopChan, startClosed, stopClosed, started, stopped,
                   running, file, haltPc, left, falses, sentStart, sentStop, logged, fatal>>
    /\ UNCHANGED plannerVars
    /\ UNCHANGED rewindVars
    /\ UNCHANGED restoreVars
    /\ UNCHANGED iterVars

\* a send on stopChan by worker w, from StopIterator or from Iterator.Next
SendStop(w, who) ==
    /\ IF stopClosed
       THEN /\ fatal' = who
            /\ UNCHANGED <<stopChan, pc, sentStop>>
       ELSE /\ Len(stopChan) < buf
            /\ stopChan' = Append(stopChan, w)
            /\ pc' = [pc EXCEPT ![w] = "live"]
            /\ sentStop' = sentStop \cup {w}
            /\ UNCHANGED fatal
    /\ UNCHANGED <<buf, startChan, startClosed, stopClosed, started, stopped, running,
                   file, haltPc, left, falses, stops, sentStart, logged>>
    /\ UNCHANGED plannerVars
    /\ UNCHANGED rewindVars
    /\ UNCHANGED restoreVars
    /\ UNCHANGED iterVars

\* tr.stopChan <- it, in StopIterator
StopSend(w) ==
    /\ fatal = "none"
    /\ pc[w] = "stop_send"
    /\ SendStop(w, "StopIterator")

\* Iterator.Next up to its send: the wrapped Next, and on false the read of
\* tracker.running.  The read is not synchronised with HaltAndDump's write,
\* so it may still see the value New stored (true).
NextCall(w) ==
    /\ fatal = "none"
    /\ pc[w] = "live"
    /\ IF left[w] > 0
       THEN /\ left' = [left EXCEPT ![w] = left[w] - 1]
            /\ UNCHANGED <<pc, falses, logged>>
       ELSE /\ falses[w] < MaxFalses
            /\ falses' = [falses EXCEPT ![w] = falses[w] + 1]
            /\ \E seen \in {running, TRUE} :
                  IF seen
                  THEN pc' = [pc EXCEPT ![w] = "next_send"] /\ UNCHANGED logged
                  ELSE logged' = logged \cup {w} /\ UNCHANGED pc
            /\ UNCHANGED left
    /\ UNCHANGED <<buf, startChan, stopChan, startClosed, stopClosed, started, stopped,
                   running, file, haltPc, stops, sentStart, sentStop, fatal>>
    /\ UNCHANGED plannerVars
    /\ UNCHANGED rewindVars
    /\ UNCHANGED restoreVars
    /\ UNCHANGED iterVars

\* it.tracker.stopChan <- it, in Iterator.Next
NextSend(w) ==
    /\ fatal = "none"
    /\ pc[w] = "next_send"
    /\ SendStop(w, "Next")

\* HaltAndDump: tr.running = false
HaltBegin ==
    /\ fatal = "none"
    /\ haltPc = "run"
    /\ running' = FALSE
    /\ haltPc' = "close_start"
    /\ UNCHANGED <<buf, startChan, stopChan, startClosed, stopClosed, started, stopped,
                   file, pc, left, falses, stops, sentStart, sentStop, logged, fatal>>
    /\ UNCHANGED plannerVars
    /\ UNCHANGED rewindVars
    /\ UNCHANGED restoreVars
    /\ UNCHANGED iterVars

\* HaltAndDump: close(tr.startChan) and the loop that drains it into started
HaltDrainStart ==
    /\ fatal = "none"
    /\ haltPc = "close_start"
    /\ startClosed' = TRUE
    /\ started' = started \cup {startChan[i] : i \in 1..Len(startChan)}
    /\ startChan' = <<>>
    /\ haltPc' = "close_stop"
    /\ UNCHANGED <<buf, stopChan, stopClosed, stopped, running, file, pc, left, falses,
                   stops, sentStart, sentStop, logged, fatal>>
    /\ UNCHANGED plannerVars
    /\ UNCHANGED rewindVars
    /\ UNCHANGED restoreVars
    /\ UNCHANGED iterVars

\* HaltAndDump: close(tr.stopChan) and the loop that drains it into stopped
HaltDrainStop ==
    /\ fatal = "none"
    /\ haltPc = "close_stop"
    /\ stopClosed' = TRUE
    /\ stopped' = stopped \o stopChan
    /\ stopChan' = <<>>
    /\ haltPc' = "dump"
    /\ UNCHANGED <<buf, startChan, startClosed, started, running, file, pc, left, falses,
                   stops, sentStart, sentStop, logged, fatal>>
    /\ UNCHANGED plannerVars
    /\ UNCHANGED rewindVars
    /\ UNCHANGED restoreVars
    /\ UNCHANGED iterVars

\* mutant: the stopped iterators are not deleted from started
ActiveKeepsStopped(st, sp) == st

\* started with every element of stopped deleted
Active(st, sp) == st \ {sp[i] : i \in 1..Len(sp)}

\* HaltAndDump from `for _, stop := range tr.stopped` on: the deletes, then the
\* file is removed (nothing active) or written by dump, a row per active
\* iterator in the map's iteration order (any order)
HaltFinish ==
    /\ fatal = "none"
    /\ haltPc = "dump"
    /\ started' = Active(started, stopped)
    /\ IF Active(started, stopped) = {}
       THEN file' = "absent"
       ELSE file' \in Perms({Row(w) : w \in Active(started, stopped)})
    /\ haltPc' = "done"
    /\ UNCHANGED <<buf, startChan, stopChan, startClosed, stopClosed, stopped, running,
                   pc, left, falses, stops, sentStart, sentStop, logged, fatal>>
    /\ UNCHANGED plannerVars
    /\ UNCHANGED rewindVars
    /\ UNCHANGED restoreVars
    /\ UNCHANGED iterVars

TrackerNext ==
    \/ \E w \in Workers : TrackedEnter(w)
    \/ \E w \in Workers : TrackedSend(w)
    \/ \E w \in Workers : StopEnter(w)
    \/ \E w \in Workers : StopSend(w)
    \/ \E w \in Workers : NextCall(w)
    \/ \E w \in Workers : NextSend(w)
    \/ HaltBegin
    \/ HaltDrainStart
    \/ HaltDrainStop
    \/ HaltFinish

SpecTracker == TrackerInit /\ [][TrackerNext]_vars

(***************************************************************************)
(* Claims about the tracker                                                *)
(***************************************************************************)
\* C8: when HaltAndDump has returned, the recovery file holds exactly one row
\* for each iterator whose registration was delivered and for which no stop
\* notification (explicit or on exhaustion) was delivered, and no other row;
\* with no such iterator there is no file.
C8_RowsAreActive ==
    haltPc = "done" =>
        /\ Rows(file) = {Row(w) : w \in sentStart \ sentStop}
        /\ file # "absent" => Len(file) = Cardinality(sentStart \ sentStop)

\* C8 witness: two iterators were tracked, one of them was stopped, and the
\* file written by HaltAndDump has the one row
C8_Witness ==
    /\ haltPc = "done" /\ fatal = "none"
    /\ Cardinality(sentStart) = 2 /\ Cardinality(sentStop) = 1
    /\ file # "absent" /\ Len(file) = 1

\* a worker is waiting in a send on a full channel that is still open
BlockedOnStart(w) == pc[w] = "track_send" /\ ~startClosed /\ Len(startChan) >= buf

BlockedOnStop(w) ==
    pc[w] \in {"next_send", "stop_send"} /\ ~stopClosed /\ Len(stopChan) >= buf

\* C9: with at most buf iterators tracked, no Tracked, StopIterator or Next
\* waits on a full channel before HaltAndDump is called.
C9_NoSendBlocks ==
    haltPc = "run" => \A w \in Workers : ~BlockedOnStart(w) /\ ~BlockedOnStop(w)

\* C9, the registrations alone (it holds for them): Tracked never waits
C9_TrackedNeverBlocks == haltPc = "run" => \A w \in Workers : ~BlockedOnStart(w)

\* C10: no interleaving of Next with HaltAndDump ends in Next sending on the
\* closed stop channel.
C10_NextNeverFatal == fatal # "Next"

\* C11: a Tracked call made once HaltAndDump has returned does not end in a
\* send on the closed start channel.
C11_TrackedAfterHaltNotFatal == haltPc = "done" => fatal # "Tracked"

(***************************************************************************)
(* Claims about the planner's argument check                               *)
(***************************************************************************)
\* nbins is one of the powers of two the planner is called with
IsPowerOfTwo(n) == \E k \in 0..MaxLogBins : n = Pow2(k)

\* C19: for an nbins that is not a power of two MakePaths (and with it the
\* interval builders under SubtrieIterators) panics at once: no path and no
\* range is ever produced; for a power of two it never panics.
C19_FailsFast ==
    /\ ~IsPowerOfTwo(nbins) => pgState = "panic" /\ res = <<>> /\ ranges = <<>> /\ rangesPad = <<>>
    /\ IsPowerOfTwo(nbins) => pgState # "panic"

\* C19 witness: MakePaths was called with nbins = 12 and panicked
C19_Witness == nbins = 12 /\ pgState = "panic" /\ res = <<>>

(***************************************************************************)
(* The checkpoint cycle.  A process tracks bounded iterators, advances     *)
(* them, calls HaltAndDump and exits; the next process calls Restore on    *)
(* the same file and trie and carries on.  Calls run one after the other   *)
(* here (the interleavings of workers are the subject of SpecTracker).     *)
(* A field of the file is its text, character by character: 0..15 is that  *)
(* hex digit, 16 stands for any character that is no hex digit.            *)
(***************************************************************************)
\* fmt.Sprintf("%x", b): two digits per byte, nothing for a nil or empty slice
RECURSIVE HexOf(_)
HexOf(b) ==
    IF b = NIL \/ b = <<>> THEN <<>>
    ELSE <<b[1] \div 16, b[1] % 16>> \o HexOf(Tail(b))

\* fmt.Sscanf(field, "%x", &path) on a []byte: bytes are read two digits at a
\* time up to the first character that is no hex digit; a digit with no second
\* digit, or no byte at all, is an error
RECURSIVE ScanHexLoop(_, _)
ScanHexLoop(s, acc) ==
    IF s = <<>> \/ s[1] > 15
    THEN [ok |-> acc # <<>>, path |-> IF acc = <<>> THEN NIL ELSE acc]
    ELSE IF Len(s) = 1 \/ s[2] > 15 THEN [ok |-> FALSE, path |-> NIL]
    ELSE ScanHexLoop(SubSeq(s, 3, Len(s)), Append(acc, 16 * s[1] + s[2]))

\* mutant: the field is not read
ScanFieldSkipped(field) == [ok |-> TRUE, path |-> NIL]

\* `if len(row[i]) != 0 { Sscanf(row[i], "%x", &path) }` with path nil before
ScanField(field) ==
    IF Len(field) = 0 THEN [ok |-> TRUE, path |-> NIL] ELSE ScanHexLoop(field, <<>>)

\* mutant: a zero nibble becomes 15 and nothing is borrowed from the left
decrementLoopNoBorrow(path, i) ==
    IF i = 0 THEN path
    ELSE [path EXCEPT ![i] = IF path[i] = 0 THEN 15 ELSE path[i] - 1]

\* decrementPath's second loop, from index i down
RECURSIVE decrementLoop(_, _)
decrementLoop(path, i) ==
    IF i = 0 THEN path
    ELSE IF path[i] = 0 THEN decrementLoop([path EXCEPT ![i] = 15], i - 1)
    ELSE [path EXCEPT ![i] = path[i] - 1]

\* decrementPath(path): the slice afterwards and the result
decrementPath(path) ==
    IF \A i \in 1..Len(Bytes(path)) : path[i] = 0
    THEN [path |-> path, ok |-> FALSE]
    ELSE [path |-> decrementLoop(path, Len(path)), ok |-> TRUE]

\* mutant: an odd-length start path is padded with 15 and not decremented
RestoreStartPathHigh(startPath) ==
    IF Len(Bytes(startPath)) % 2 = 1 THEN Append(startPath, 15) ELSE startPath

\* mutant: the start path is used as it was parsed
RestoreStartPathAsIs(startPath) == startPath

\* Restore: the lower bound is forced to an even length
RestoreStartPath(startPath) ==
    IF Len(Bytes(startPath)) % 2 = 1
    THEN Append(decrementPath(startPath).path, 0)
    ELSE startPath

\* Tracked(it, recoveredPath) up to its send: the tracker.Iterator
Tracked(it, recoveredPath) ==
    [it |-> it, SeekedPath |-> Bytes(recoveredPath), EndPath |-> it.EndPath]

\* dump: the start path written for a tracked iterator
DumpStartPath(t, x) ==
    IF Bytes(x.SeekedPath) # <<>> /\ Bytes(Path(t, x.it)) # <<>>
    THEN Path(t, x.it)
    ELSE x.it.from

\* dump: the row of a tracked iterator
DumpRow(t, x) == <<HexOf(DumpStartPath(t, x)), HexOf(x.it.EndPath), HexOf(x.SeekedPath)>>

\* mutant: an empty dump leaves an empty file behind
DumpFileKeepsEmpty(rows) == FileOf(rows)

\* HaltAndDump's end: nothing active removes the file, otherwise dump writes it
DumpFile(rows) == IF rows = <<>> THEN NoFile ELSE FileOf(rows)

\* mutant: a missing file is an error
RestoreOpenStrict(f) ==
    IF ~f.exists THEN "error"
    ELSE IF \E k \in 1..Len(f.rows) : Len(f.rows[k]) # 3 THEN "error"
    ELSE IF Len(f.rows) = 0 THEN "ok" ELSE "loop"

\* Restore up to its loop: os.Open, csv ReadAll with FieldsPerRecord = 3
RestoreOpen(f) ==
    IF ~f.exists THEN "ok"
    ELSE IF \E k \in 1..Len(f.rows) : Len(f.rows[k]) # 3 THEN "error"
    ELSE IF Len(f.rows) = 0 THEN "ok" ELSE "loop"

\* mutant: the tracker is born halted
NewNotRunning(b) ==
    [cap |-> b, startChan |-> <<>>, stopChan |-> <<>>, closed |-> FALSE,
     started |-> {}, stopped |-> <<>>, running |-> FALSE, halt |-> "run",
     fatal |-> "none"]

\* tracker.New(file, buf)
New(b) == [cap |-> b, startChan |-> <<>>, stopChan |-> <<>>, closed |-> FALSE,
           started |-> {}, stopped |-> <<>>, running |-> TRUE, halt |-> "run",
           fatal |-> "none"]

\* checkpoint files found by the first process: none, an empty one, well-formed
\* rows (start path, end path, seeked path), a row with a field that is no
\* hex text, a row of two columns
StartInputs == {NIL, <<1>>, <<0, 8, 0>>, <<8, 0>>}

EndInputs == {NIL, <<8>>}

GoodRows == {<<HexOf(a), HexOf(b), HexOf(a)>> : a \in StartInputs, b \in EndInputs}

BadHexRow == << <<0, 8>>, <<16, 16>>, <<>> >>

ShortRow == << <<0, 8>>, <<>> >>

FileInputs ==
    {NoFile, FileOf(<<>>)} \cup {FileOf(<<r>>) : r \in GoodRows \cup {BadHexRow, ShortRow}}
        \cup {FileOf(<<r, q>>) : r \in {<<<<>>, <<0, 8>>, <<>>>>},
                                 q \in {BadHexRow, ShortRow, <<<<0, 8, 0, 0>>, <<>>, <<0, 8, 0, 0>>>>}}

\* per tracked iterator: what it emitted, whether its Next has returned false,
\* whether StopIterator was called for it
NoneEmitted == [paths |-> <<>>, ended |-> FALSE, stopped |-> FALSE]

\* the tries the cycle is run on: node paths of odd and even length, ending in
\* 0 and in 15, all-zero, and the root alone
RestoreTries ==
    { << <<>> >>,
      << <<>>, <<1>> >>,
      << <<>>, <<8>>, <<8, 0>> >>,
      << <<>>, <<0>>, <<0, 8>>, <<1>> >>,
      << <<>>, <<1>>, <<1, 0>>, <<8>> >>,
      << <<>>, <<7, 15>>, <<8>>, <<8, 0>> >>,
      << <<>>, <<0>>, <<8, 0>>, <<15, 15>> >>,
      << <<>>, <<0, 8>>, <<1, 0>>, <<8>> >> }

RestoreInit ==
    /\ tree \in RestoreTries
    /\ recoveryFile \in FileInputs
    /\ \E b \in 1..MaxBuf : trk = New(b)
    /\ its = <<>>
    /\ emitted = <<>>
    /\ proc = 1
    /\ rst = NoRestore
    /\ callerWrites \in BOOLEAN
    /\ dumped = <<>>
    /\ PlannerIdle
    /\ IterIdle
    /\ TrackerIdle
    /\ RewindIdle

\* the iterators of SubtrieIterators(tree, n), each handed to Tracked(it, nil)
RECURSIVE TrackAll(_, _, _)
TrackAll(bins, i, acc) ==
    IF i > Len(bins) THEN acc ELSE TrackAll(bins, i + 1, Append(acc, Tracked(bins[i], NIL)))

RECURSIVE Repeat(_, _)
Repeat(x, n) == IF n = 0 THEN <<>> ELSE Append(Repeat(x, n - 1), x)

RECURSIVE UpTo(_)
UpTo(n) == IF n = 0 THEN <<>> ELSE Append(UpTo(n - 1), n)

\* a fresh run: iters := SubtrieIterators(tree, n), then Tracked on each
TrackSubtries ==
    /\ trk.fatal = "none" /\ trk.halt = "run"
    /\ its = <<>> /\ rst.pc = "none"
    /\ \E k \in 0..1 :
          /\ Pow2(k) <= trk.cap
          /\ its' = TrackAll(SeekSubtrieIterators(tree, Pow2(k)), 1, <<>>)
          /\ emitted' = Repeat(NoneEmitted, Pow2(k))
          /\ trk' = [trk EXCEPT !.startChan = UpTo(Pow2(k))]
    /\ UNCHANGED <<tree, recoveryFile, proc, rst, callerWrites, dumped>>
    /\ UNCHANGED plannerVars
    /\ UNCHANGED rewindVars
    /\ UNCHANGED iterVars
    /\ UNCHANGED trackerVars

\* Iterator.Next(true) on tracked iterator i; after a true result the worker
\* may store the path in SeekedPath
TrackedNext(i) ==
    /\ trk.fatal = "none"
    /\ rst.pc # "loop"
    /\ ~emitted[i].ended /\ ~emitted[i].stopped
    /\ LET r == SeekNext(tree, its[i].it, TRUE)
       IN IF r.ok
          THEN /\ its' = [its EXCEPT ![i] =
                          [it |-> r.it,
                           SeekedPath |-> IF callerWrites THEN Path(tree, r.it)
                                          ELSE its[i].SeekedPath,
                           EndPath |-> its[i].EndPath]]
               /\ emitted' = [emitted EXCEPT ![i] =
                          [paths |-> Append(emitted[i].paths, Path(tree, r.it)),
                           ended |-> FALSE, stopped |-> FALSE]]
               /\ UNCHANGED trk
          ELSE /\ its' = [its EXCEPT ![i] =
                          [it |-> r.it, SeekedPath |-> its[i].SeekedPath,
                           EndPath |-> its[i].EndPath]]
               /\ emitted' = [emitted EXCEPT ![i] =
                          [paths |-> emitted[i].paths, ended |-> TRUE, stopped |-> FALSE]]
               /\ IF trk.running
                  THEN /\ Len(trk.stopChan) < trk.cap
                       /\ trk' = [trk EXCEPT !.stopChan = Append(trk.stopChan, i)]
                  ELSE UNCHANGED trk
    /\ UNCHANGED <<tree, recoveryFile, proc, rst, callerWrites, dumped>>
    /\ UNCHANGED plannerVars
    /\ UNCHANGED rewindVars
    /\ UNCHANGED iterVars
    /\ UNCHANGED trackerVars

\* StopIterator(its[i])
StopTracked(i) ==
    /\ trk.fatal = "none" /\ trk.halt = "run"
    /\ rst.pc # "loop"
    /\ ~emitted[i].ended /\ ~emitted[i].stopped
    /\ Len(trk.stopChan) < trk.cap
    /\ trk' = [trk EXCEPT !.stopChan = Append(trk.stopChan, i)]
    /\ emitted' = [emitted EXCEPT ![i] =
                      [paths |-> emitted[i].paths, ended |-> FALSE, stopped |-> TRUE]]
    /\ UNCHANGED <<tree, recoveryFile, its, proc, rst, callerWrites, dumped>>
    /\ UNCHANGED plannerVars
    /\ UNCHANGED rewindVars
    /\ UNCHANGED iterVars
    /\ UNCHANGED trackerVars

\* the elements of a channel's buffer / of a slice
Elems(q) == {q[k] : k \in 1..Len(q)}

\* dump's rows, one per active iterator in the order the map is ranged over
RECURSIVE DumpRows(_, _, _)
DumpRows(t, xs, order) ==
    IF order = <<>> THEN <<>>
    ELSE <<DumpRow(t, xs[Head(order)])>> \o DumpRows(t, xs, Tail(order))

\* what each row was written from: the iterator, its state and what it had emitted
RECURSIVE DumpedFrom(_, _, _)
DumpedFrom(xs, em, order) ==
    IF order = <<>> THEN <<>>
    ELSE <<[id |-> Head(order), x |-> xs[Head(order)], paths |-> em[Head(order)].paths]>>
            \o DumpedFrom(xs, em, Tail(order))

\* HaltAndDump, start to end: running = false, both channels closed and
\* drained, the stopped iterators deleted, the file removed or written
HaltAndDump ==
    /\ trk.fatal = "none" /\ trk.halt = "run"
    /\ rst.pc # "loop"
    /\ LET started1 == trk.started \cup Elems(trk.startChan)
           stopped1 == trk.stopped \o trk.stopChan
           active == Active(started1, stopped1)
       IN /\ trk' = [cap |-> trk.cap, startChan |-> <<>>, stopChan |-> <<>>,
                     closed |-> TRUE, started |-> active, stopped |-> stopped1,
                     running |-> FALSE, halt |-> "done", fatal |-> "none"]
          /\ \E order \in Perms(active) :
                /\ recoveryFile' = DumpFile(DumpRows(tree, its, order))
                /\ dumped' = DumpedFrom(its, emitted, order)
    /\ UNCHANGED <<tree, its, emitted, proc, rst, callerWrites>>
    /\ UNCHANGED plannerVars
    /\ UNCHANGED rewindVars
    /\ UNCHANGED iterVars
    /\ UNCHANGED trackerVars

\* the process exits after HaltAndDump; the next one starts with tracker.New
Restart ==
    /\ trk.fatal = "none" /\ trk.halt = "done"
    /\ rst.pc # "loop"
    /\ proc < MaxRuns
    /\ proc' = proc + 1
    /\ trk' = New(trk.cap)
    /\ its' = <<>>
    /\ emitted' = <<>>
    /\ rst' = NoRestore
    /\ UNCHANGED <<tree, recoveryFile, callerWrites, dumped>>
    /\ UNCHANGED plannerVars
    /\ UNCHANGED rewindVars
    /\ UNCHANGED iterVars
    /\ UNCHANGED trackerVars

\* Restore(tree) up to its loop over the rows
RestoreBegin ==
    /\ trk.fatal = "none"
    /\ rst.pc = "none"
    /\ its = <<>> \/ trk.halt = "done"
    /\ rst' = [pc |-> RestoreOpen(recoveryFile), ix |-> 1, rows |-> recoveryFile.rows,
               ret |-> <<>>, pending |-> trk.startChan, afterHalt |-> trk.halt = "done"]
    /\ UNCHANGED <<tree, recoveryFile, trk, its, emitted, proc, callerWrites, dumped>>
    /\ UNCHANGED plannerVars
    /\ UNCHANGED rewindVars
    /\ UNCHANGED iterVars
    /\ UNCHANGED trackerVars

\* one iteration of Restore's loop: the three fields are parsed, the start path
\* is made even, the iterator is built and handed to Tracked, whose send
\* panics on a closed channel and waits on a full one
RestoreRow ==
    /\ trk.fatal = "none"
    /\ rst.pc = "loop"
    /\ LET row == rst.rows[rst.ix]
           f1 == ScanField(row[1])
           f2 == ScanField(row[2])
           f3 == ScanField(row[3])
           startPath == RestoreStartPath(f1.path)
           it == NewSeekBoundIterator(tree, startPath, f2.path)
       IN IF ~f1.ok \/ ~f2.ok \/ ~f3.ok
          THEN /\ rst' = [rst EXCEPT !.pc = "error", !.ret = <<>>]
               /\ UNCHANGED <<trk, its, emitted>>
          ELSE IF trk.closed
          THEN /\ trk' = [trk EXCEPT !.fatal = "Tracked"]
               /\ UNCHANGED <<rst, its, emitted>>
          ELSE /\ Len(trk.startChan) < trk.cap
               /\ its' = Append(its, Tracked(it, f3.path))
               /\ emitted' = Append(emitted, NoneEmitted)
               /\ trk' = [trk EXCEPT !.startChan = Append(trk.startChan, Len(its) + 1)]
               /\ rst' = [rst EXCEPT !.ret = Append(rst.ret, Len(its) + 1),
                                     !.ix = rst.ix + 1,
                                     !.pc = IF rst.ix = Len(rst.rows) THEN "ok" ELSE "loop"]
    /\ UNCHANGED <<tree, recoveryFile, proc, callerWrites, dumped>>
    /\ UNCHANGED plannerVars
    /\ UNCHANGED rewindVars
    /\ UNCHANGED iterVars
    /\ UNCHANGED trackerVars

RestoreNext ==
    \/ TrackSubtries
    \/ \E i \in 1..Len(its) : TrackedNext(i)
    \/ \E i \in 1..Len(its) : StopTracked(i)
    \/ HaltAndDump
    \/ Restart
    \/ RestoreBegin
    \/ RestoreRow

SpecRestore == RestoreInit /\ [][RestoreNext]_vars

(***************************************************************************)
(* Claims about the checkpoint cycle                                       *)
(***************************************************************************)
\* p lies in the range [from, to] of a bounded iterator (nil is unbounded)
InRange(p, from, to) == Compare(from, p) <= 0 /\ (to = NIL \/ Compare(p, to) <= 0)

\* this process has restored the file the previous process dumped, and has not
\* halted yet: row k was written from dumped[k] and gave iterator rst.ret[k]
RestoredFromDump ==
    /\ proc > 1 /\ trk.halt = "run" /\ trk.fatal = "none"
    /\ rst.pc = "ok" /\ ~rst.afterHalt
    /\ Len(rst.ret) = Len(dumped)

\* C12: when an iterator restored from a dumped row has been run to exhaustion,
\* every node in the range of the iterator the row was written from is among
\* the nodes that iterator emitted before the halt or among those the restored
\* one emitted.
C12_NoNodeSkipped ==
    RestoredFromDump =>
        \A k \in 1..Len(dumped) :
            emitted[rst.ret[k]].ended =>
                \A n \in 1..Len(tree) :
                    InRange(tree[n], dumped[k].x.it.from, dumped[k].x.it.EndPath) =>
                        \/ tree[n] \in Elems(dumped[k].paths)
                        \/ tree[n] \in Elems(emitted[rst.ret[k]].paths)

\* C12 witness: an iterator halted on the odd-length path [1] after two nodes
\* was restored and run to exhaustion, emitting the node behind it
C12_Witness ==
    /\ RestoredFromDump /\ Len(dumped) = 1
    /\ dumped[1].paths = << <<>>, <<1>> >>
    /\ rst.rows[1][1] = <<0, 1>>
    /\ emitted[rst.ret[1]].ended
    /\ <<8>> \in Elems(emitted[rst.ret[1]].paths)

\* row k of the dump recorded the node its iterator was last advanced onto
RecordedCurrent(k) ==
    /\ dumped[k].paths # <<>>
    /\ rst.rows[k][1] = HexOf(Last(dumped[k].paths))

\* C13: if the path recorded in a row is the node p its iterator stood on at
\* the halt, the restored iterator's first Next that returns true lands on the
\* node after p in pre-order, and it emits no node emitted before the halt.
C13_ResumesAfterRecorded ==
    RestoredFromDump =>
        \A k \in 1..Len(dumped) :
            (RecordedCurrent(k) /\ emitted[rst.ret[k]].paths # <<>>) =>
                /\ \E n \in 1..(Len(tree) - 1) :
                      /\ tree[n] = Last(dumped[k].paths)
                      /\ emitted[rst.ret[k]].paths[1] = tree[n + 1]
                /\ Elems(dumped[k].paths) \cap Elems(emitted[rst.ret[k]].paths) = {}

\* C14: in the file HaltAndDump wrote, the first column of a row is the path
\* of the node its iterator was last advanced onto and the second column is
\* the iterator's upper bound (empty when nil).
C14_RowIsCurrentPath ==
    (trk.halt = "done" /\ recoveryFile.exists) =>
        \A k \in 1..Len(dumped) :
            /\ dumped[k].paths # <<>> =>
                  recoveryFile.rows[k][1] = HexOf(Last(dumped[k].paths))
            /\ recoveryFile.rows[k][2] = HexOf(dumped[k].x.it.EndPath)

\* C14 where the workers store each path in SeekedPath (it holds there)
C14_WhenCallerWrites == callerWrites => C14_RowIsCurrentPath

\* how many entries of the list of rows have v in column c
CountIn(rows, c, v) == Cardinality({k \in 1..Len(rows) : rows[k][c] = v})

\* C15: when Restore has returned without error it has returned one iterator
\* per row, in row order, each with the row's range end as its upper bound (nil
\* for an empty column) and each registered; and a HaltAndDump that follows
\* with nothing stopped writes as many rows, with the same range ends.
C15_RestoreRowForRow ==
    /\ (rst.pc = "ok" /\ ~rst.afterHalt /\ trk.fatal = "none") =>
          /\ Len(rst.ret) = Len(rst.rows)
          /\ \A k \in 1..Len(rst.ret) :
                /\ its[rst.ret[k]].it.EndPath = ScanHexLoop(rst.rows[k][2], <<>>).path
                /\ rst.rows[k][2] = <<>> <=> its[rst.ret[k]].it.EndPath = NIL
                /\ k > 1 => rst.ret[k - 1] < rst.ret[k]
                /\ trk.halt = "run" => rst.ret[k] \in Elems(trk.startChan)
    /\ (rst.pc = "ok" /\ ~rst.afterHalt /\ trk.halt = "done" /\ trk.stopped = <<>>
            /\ Len(its) = Len(rst.ret)) =>
          /\ Len(recoveryFile.rows) = Len(rst.rows)
          /\ \A k \in 1..Len(rst.rows) :
                CountIn(recoveryFile.rows, 2, rst.rows[k][2]) = CountIn(rst.rows, 2, rst.rows[k][2])

\* C15 witness: two rows were restored, the second bounded by [8] taken from
\* its row, and the HaltAndDump that followed wrote two rows again
C15_Witness ==
    /\ rst.pc = "ok" /\ ~rst.afterHalt /\ Len(rst.ret) = 2
    /\ rst.rows[1][2] = <<0, 8>> /\ its[rst.ret[1]].it.EndPath = <<8>>
    /\ trk.halt = "done" /\ trk.stopped = <<>> /\ Len(recoveryFile.rows) = 2

\* C16: when Restore returns an error it returns no iterator and has registered
\* none: the start channel holds what it held when Restore was called.
C16_RestoreAllOrNothing ==
    rst.pc = "error" => rst.ret = <<>> /\ trk.startChan = rst.pending /\ its = <<>>

\* C17: a HaltAndDump that finds nothing active leaves no file behind, whether
\* or not there was one; a Restore after it, on this tracker or in the next
\* process, returns no iterator and no error.
C17_EmptyHaltRemovesFile ==
    /\ (trk.halt = "done" /\ trk.started = {}) => ~recoveryFile.exists
    /\ (trk.halt = "done" /\ trk.started = {} /\ rst.afterHalt /\ rst.pc # "none") =>
          rst.pc = "ok" /\ rst.ret = <<>> /\ trk.fatal = "none"
    /\ (proc > 1 /\ dumped = <<>> /\ trk.halt = "run" /\ rst.pc # "none") =>
          rst.pc = "ok" /\ rst.ret = <<>>

\* C17 witness: every tracked iterator was stopped, HaltAndDump removed the
\* file, and the Restore called after it returned nothing
C17_Witness ==
    /\ trk.halt = "done" /\ trk.started = {} /\ Len(its) = 2 /\ Len(trk.stopped) = 2
    /\ ~recoveryFile.exists
    /\ rst.afterHalt /\ rst.pc = "ok" /\ rst.ret = <<>>

\* C18: a Restore that finds no file returns no iterator and no error, leaves
\* the tracker and its iterators as they were, and creates no file.
C18_RestoreWithoutFile ==
    [][(rst.pc = "none" /\ rst'.pc # "none" /\ ~recoveryFile.exists) =>
          /\ rst'.pc = "ok" /\ rst'.ret = <<>>
          /\ trk' = trk /\ its' = its
          /\ ~recoveryFile'.exists]_vars

\* C18 witness: Restore has returned in a first process that found no file
C18_Witness ==
    /\ proc = 1 /\ rst.pc = "ok" /\ ~rst.afterHalt /\ ~recoveryFile.exists
    /\ trk.halt = "run" /\ its = <<>> /\ trk.startChan = <<>>

\* C20: within a process the tracker's running flag is true until HaltAndDump
\* and false from then on; no step sets it from false to true.
C20_RunningOnce ==
    /\ [](proc > 0 => (trk.running <=> trk.halt = "run"))
    /\ [][proc' = proc => (trk'.running => trk.running)]_vars

\* C20 witness: the tracker was halted with an iterator still active, after
\* Tracked, Next and Restore had run on it
C20_Witness ==
    /\ trk.halt = "done" /\ ~trk.running /\ rst.pc = "ok" /\ ~rst.afterHalt
    /\ Len(rst.ret) = 1 /\ Len(emitted[1].paths) = 1 /\ trk.started = {1}

(***************************************************************************)
(* Claims about the boundary paths of MakePaths                            *)
(***************************************************************************)
\* the least L >= 1 with n <= 16^L
MinimalLength(n) == CHOOSE L \in 1..(MaxLogBins + 2) :
                        /\ n <= 16 ^ L
                        /\ \A K \in 1..(L - 1) : n > 16 ^ K

\* the nibbles MakePaths appended to the prefix in its i-th path
Suffix(i) == SubSeq(res[i], Len(Bytes(prefix)) + 1, Len(res[i]))

\* a nibble sequence read as a base-16 number
RECURSIVE Base16(_)
Base16(q) == IF q = <<>> THEN 0 ELSE 16 * Base16(SubSeq(q, 1, Len(q) - 1)) + q[Len(q)]

\* C22: for a power-of-two nbins every path of MakePaths is the prefix followed
\* by L nibbles, L the least length with nbins <= 16^L.
C22_MinimalLength ==
    pgState # "panic" =>
        \A i \in 1..Len(res) : Len(Suffix(i)) = MinimalLength(nbins)

\* what the generator does instead: one nibble per hex digit of nbins, that is
\* the least L with nbins < 16^L (it holds)
C22_OneNibblePerDigit ==
    pgState # "panic" =>
        \A i \in 1..Len(res) : Len(Suffix(i)) = MinimalLength(nbins + 1)

\* C23: once MakePaths has returned, its paths all start with the prefix, have
\* one length, hold nibbles 0..15 only, start at prefix ++ 0..0, ascend strictly,
\* and consecutive suffixes, read as base-16 numbers of L digits (L the number
\* of nibbles appended), differ by exactly 16^L / nbins.
C23_EvenlySpaced ==
    pgState \in {"done", "ranges"} =>
        LET pre == Bytes(prefix)
            L   == Len(Suffix(1))
        IN /\ \A i \in 1..Len(res) :
                 /\ IsPrefix(pre, res[i])
                 /\ Len(Suffix(i)) = L
                 /\ \A k \in 1..L : Suffix(i)[k] \in 0..15
           /\ res[1] = pre \o Zeros(L)
           /\ (16 ^ L) % nbins = 0
           /\ \A i \in 1..(Len(res) - 1) :
                 /\ Compare(res[i], res[i + 1]) < 0
                 /\ Base16(Suffix(i + 1)) - Base16(Suffix(i)) = (16 ^ L) \div nbins

\* C23 witness: MakePaths([4], 32) has returned [4 0 0] [4 0 8] [4 1 0] .. [4 f 8]
C23_Witness ==
    /\ pgState = "done" /\ prefix = <<4>> /\ nbins = 32
    /\ res[2] = <<4, 0, 8>> /\ res[3] = <<4, 1, 0>> /\ res[32] = <<4, 15, 8>>

(***************************************************************************)
(* Claims about one bounded iterator: its upper bound, the calls made      *)
(* after Next has returned false, and its first call                       *)
(***************************************************************************)
\* the latest call of Next on the iterator returned true
LatestTrue == lastOk = "true" \/ again.ok = "true"

\* C24: with a non-nil end bound, Next never returns true while the iterator
\* is on a path p >= end (the node on the end bound itself is not emitted).
C24_ExcludesEnd ==
    (itState = "bounds" /\ LatestTrue /\ iters[1].EndPath # NIL) =>
        Compare(Path(trie, iters[1]), iters[1].EndPath) < 0

\* C24 for src/iterator.go alone (it holds there)
C24_ExcludesEndPrimed == iters # <<>> /\ iters[1].kind = "primed" => C24_ExcludesEnd

\* C25: after Next has returned false with the iterator on a node that is out
\* of range, later Next calls leave the underlying iterator where it was.
C25_NoAdvanceAfterFalse ==
    (itState = "bounds" /\ again.calls > 0 /\ again.byBound) => iters[1].u = again.u

\* C26: once Next has returned false, by the bound or because the underlying
\* iterator ran out, every later Next returns false, whatever descend is.
C26_ExhaustionPermanent == again.calls > 0 => again.ok = "false"

\* C26 witness: false came on an out-of-range node, two more calls were made,
\* the underlying iterator moved on to a later node, and both returned false
C26_Witness ==
    /\ again.calls = 2 /\ again.byBound /\ again.ok = "false"
    /\ iters[1].u.at = "node" /\ iters[1].u # again.u

\* the first Next call on iters[1] has been made and no other
FirstCallMade ==
    \/ lastOk = "true" /\ Len(out[1]) = 1
    \/ lastOk = "false" /\ out[1] = <<>> /\ again.calls = 0

\* what C27 says of src/iterator.go's iterator on the lower bound from
FirstNextPrimes(from) ==
    LET i == FirstAtOrAfter(trie, from, 1)
    IN /\ (lastOk = "none" \/ FirstCallMade) => iters[1].u = UAt(trie, i)
       /\ out[1] # <<>> => (i <= Len(trie) /\ out[1][1] = trie[i])

\* C27: NewPrefixBoundIterator(tree, from, to) leaves the underlying iterator
\* on the first node with path >= from, the first Next does not move it, and
\* the first node emitted is that node.
C27_FirstNextIsNoOp ==
    (itState = "bounds" /\ iters[1].kind = "primed") => FirstNextPrimes(iters[1].from)

\* C27 when the trie holds a node with path >= from (it holds then)
C27_WhenSomeNodeAtOrAfter ==
    (itState = "bounds" /\ iters[1].kind = "primed"
        /\ FirstAtOrAfter(trie, iters[1].from, 1) <= Len(trie)) =>
            FirstNextPrimes(iters[1].from)

(***************************************************************************)
(* The path arithmetic of Restore on its own: a start path as parsed from  *)
(* a checkpoint row is handed to decrementPath, and to the statements of   *)
(* Restore that force it to an even length.                                *)
(***************************************************************************)
\* the paths of up to MaxPathLen nibbles, and the nil slice of an empty field
PathInputs == {NIL} \cup UNION {[1..n -> 0..15] : n \in 0..MaxPathLen}

RewindInit ==
    /\ recorded \in PathInputs
    /\ dec = NoDec
    /\ resume = NIL
    /\ rwState = "parsed"
    /\ PlannerIdle
    /\ IterIdle
    /\ TrackerIdle
    /\ RestoreIdle

\* ok := decrementPath(path)
CallDecrementPath ==
    /\ rwState = "parsed"
    /\ dec' = decrementPath(recorded)
    /\ rwState' = "decremented"
    /\ UNCHANGED <<recorded, resume>>
    /\ UNCHANGED plannerVars
    /\ UNCHANGED iterVars
    /\ UNCHANGED trackerVars
    /\ UNCHANGED restoreVars

\* Restore: if len(startPath)&0b1 == 1 { decrementPath(..); append(.., 0) }
ForceEvenLength ==
    /\ rwState = "parsed"
    /\ resume' = RestoreStartPath(recorded)
    /\ rwState' = "resumed"
    /\ UNCHANGED <<recorded, dec>>
    /\ UNCHANGED plannerVars
    /\ UNCHANGED iterVars
    /\ UNCHANGED trackerVars
    /\ UNCHANGED restoreVars

RewindNext == CallDecrementPath \/ ForceEvenLength

SpecRewind == RewindInit /\ [][RewindNext]_vars

(***************************************************************************)
(* Claims about the path arithmetic                                        *)
(***************************************************************************)
RECURSIVE Fifteens(_)
Fifteens(n) == IF n <= 0 THEN <<>> ELSE Append(Fifteens(n - 1), 15)

\* the rewind C21 states: drop a last nibble 0, else decrement the last nibble
\* and pad with 15 to 64 nibbles; the empty path as it is
RewindAsStated(p) ==
    IF Bytes(p) = <<>> THEN p
    ELSE IF p[Len(p)] = 0 THEN SubSeq(p, 1, Len(p) - 1)
    ELSE [p EXCEPT ![Len(p)] = @ - 1] \o Fifteens(64 - Len(p))

AllNibbles(p) == \A i \in 1..Len(Bytes(p)) : p[i] \in 0..15

\* C21: for a recorded path of odd length, the path Restore seeks from is the
\* stated rewind of it (last nibble 0 dropped; else last nibble decremented
\* and the path padded with 15 to 64 nibbles).
C21_RewindAsStated ==
    (rwState = "resumed" /\ Len(Bytes(recorded)) % 2 = 1) =>
        resume = RewindAsStated(recorded)

\* C28: the start path Restore seeks from has an even number of nibbles, all
\* in 0..15, whatever the recorded path is.
C28_EvenStartPath ==
    rwState = "resumed" => (Len(Bytes(resume)) % 2 = 0 /\ AllNibbles(resume))

\* C28 witness: the all-zero path [0 0 0] was forced to [0 0 0 0]
C28_Witness ==
    rwState = "resumed" /\ recorded = <<0, 0, 0>> /\ resume = <<0, 0, 0, 0>>

\* C29: decrementPath on a path that is not all zeros returns true and leaves
\* the path of the same length whose base-16 value is one less, all nibbles in
\* 0..15; on an all-zero or empty path it returns false and changes nothing.
C29_DecrementIsMinusOne ==
    rwState = "decremented" =>
        IF \E i \in 1..Len(Bytes(recorded)) : recorded[i] # 0
        THEN /\ dec.ok
             /\ Len(dec.path) = Len(recorded)
             /\ AllNibbles(dec.path)
             /\ Base16(dec.path) = Base16(recorded) - 1
        ELSE ~dec.ok /\ dec.path = recorded

\* C29 witness: [1 0 0] became [0 f f], borrowing across two zero nibbles
C29_Witness ==
    /\ rwState = "decremented" /\ recorded = <<1, 0, 0>>
    /\ dec = [path |-> <<0, 15, 15>>, ok |-> TRUE]

====
